---- MODULE Spec2Model ----
(***************************************************************************)
(* A model of the spirograph renderer of src/main.rs: the curve            *)
(* (Spirograph::at), its iterator (SpirographIter), the canvas wrapper     *)
(* (Canvas) and the yew component (Model::create / update / view).         *)
(*                                                                         *)
(* Numbers.  The iterator's `now` and `width` are f64 values that the code *)
(* only ever adds; they are modelled exactly, as integers counted in units *)
(* of 2^-55 and held in two limbs <<hi, lo>> of 28 bits (value =           *)
(* hi * 2^28 + lo), with IEEE-754 round-to-nearest-even to 53 significant  *)
(* bits after every addition.  The shape coefficients l and k and the      *)
(* coordinates of a point are modelled in decimal fixed point with four    *)
(* fractional digits (0.22 is 2200), and cos/sin by their Taylor           *)
(* polynomials in that fixed point.                                        *)
(***************************************************************************)
EXTENDS Integers, Sequences, FiniteSets, TLC

VARIABLES
    spirograph,  \* Model.spirograph: [s |-> [l, k, r], now, width]
    canvas,      \* Model.canvas: [id, width, height, calls]
    created,     \* number of canvas elements the document has created
    nLineTo,     \* number of line_to calls the 2d contexts have received
    nStroke,     \* number of stroke calls the 2d contexts have received
    lastRaw,     \* history: <<raw>> of the slider event handled last, or <<>>
    lastMsg,     \* history: the message Model::update processed last
    prevMsg,     \* history: the message Model::update processed before it
    nTick,       \* history: number of Msg::Tick processed
    nParam,      \* history: number of Msg::LSlider / Msg::KSlider processed
    trace,       \* history: the values of `now` at the calls of next() that
                 \*          drew on the current canvas, oldest first
    status,      \* "running", "panicked" (an unwrap failed) or "destroyed"
    interval,    \* Model._interval: "active", "cancelled", or "none"
    fault        \* history: what made an unwrap fail: "none", "input"
                 \*          (cb), "canvas" (Canvas::new) or "next" (Tick)

vars == <<spirograph, canvas, created, nLineTo, nStroke,
          lastRaw, lastMsg, prevMsg, nTick, nParam, trace,
          status, interval, fault>>

(***************************************************************************)
(* Bounds of the model.                                                    *)
(***************************************************************************)
\* Messages processed in one behaviour.
MaxEvents == 8

\* Points ahead of the current one at which the curve is evaluated.
MaxAhead == 45

\* Raw `_value`s a slider event may carry (slider units, 1/100 of the ratio):
\* below, at, inside, and above the range the clamp keeps.
RawValues == {-7, 0, 22, 46, 99, 250}

(***************************************************************************)
(* f64 addition, exact: two 28-bit limbs in units of 2^-55.                *)
(***************************************************************************)
Base == 2^28

Zero == <<0, 0>>

Norm(hi, lo) == <<hi + (lo \div Base), lo % Base>>

\* The sum as a real number, before rounding.
ExactAdd(a, b) == Norm(a[1] + b[1], a[2] + b[2])

\* The spacing of f64 values around a value whose high limb is hi: a value
\* below 2^53 units is held exactly, and the spacing doubles with each binade.
RECURSIVE Quantum(_)
Quantum(hi) == IF hi < 2^25 THEN 1 ELSE 2 * Quantum(hi \div 2)

\* IEEE-754 round to nearest, ties to even, to 53 significant bits.
RoundNearestEven(v) ==
    LET q    == Quantum(v[1])
        r    == v[2] % q
        down == v[2] - r
    IN  IF r = 0 THEN v
        ELSE IF 2 * r < q \/ (2 * r = q /\ (down \div q) % 2 = 0)
             THEN <<v[1], down>>
             ELSE Norm(v[1], down + q)

\* a + b as the f64 `+` computes it.
FAdd(a, b) == RoundNearestEven(ExactAdd(a, b))

\* The f64 literal 0.15 = 0x13333333333333 * 2^-55.
Width == <<20132659, 53687091>>

(***************************************************************************)
(* Decimal fixed point for the coefficients and the coordinates.           *)
(***************************************************************************)
Scale == 10^4

Mul(a, b) == (a * b) \div Scale

\* An f64 in units of 2^-55 as a fixed-point number (truncated).
ToFixed(t) == ((t[1] \div 2^13) * Scale) \div 2^14

Pi == 31416
HalfPi == 15708
TwoPi == 62832

\* sin on [0, pi/2]: x - x^3/3! + x^5/5! - x^7/7! + x^9/9!, in Horner form.
SinPoly(x) ==
    LET x2 == Mul(x, x)
        t4 == Scale - (x2 \div 72)
        t3 == Scale - (Mul(x2, t4) \div 42)
        t2 == Scale - (Mul(x2, t3) \div 20)
        t1 == Scale - (Mul(x2, t2) \div 6)
    IN  Mul(x, t1)

\* cos on [0, pi/2]: 1 - x^2/2! + x^4/4! - x^6/6! + x^8/8!, in Horner form.
CosPoly(x) ==
    LET x2 == Mul(x, x)
        t4 == Scale - (x2 \div 56)
        t3 == Scale - (Mul(x2, t4) \div 30)
        t2 == Scale - (Mul(x2, t3) \div 12)
    IN  Scale - (Mul(x2, t2) \div 2)

\* f64::sin of a non-negative angle.
Sin(a) ==
    LET m == a % TwoPi
    IN  IF m <= HalfPi THEN SinPoly(m)
        ELSE IF m <= Pi THEN SinPoly(Pi - m)
        ELSE IF m <= Pi + HalfPi THEN 0 - SinPoly(m - Pi)
        ELSE 0 - SinPoly(TwoPi - m)

\* f64::cos of a non-negative angle.
Cos(a) ==
    LET m == a % TwoPi
    IN  IF m <= HalfPi THEN CosPoly(m)
        ELSE IF m <= Pi THEN 0 - CosPoly(Pi - m)
        ELSE IF m <= Pi + HalfPi THEN 0 - CosPoly(m - Pi)
        ELSE CosPoly(TwoPi - m)

\* The f64 NaN, as a coordinate: a value outside every coordinate computed.
NaN == 0 - 2^30

(***************************************************************************)
(* Spirograph                                                              *)
(***************************************************************************)
SpirographNew(l, k, r) == [l |-> l, k |-> k, r |-> r]

\* At without the term of the tracing point.
AtNoOffsetTerm(s, t) ==
    LET tt == ToFixed(t)
    IN  <<s.r * Mul(Scale - s.k, Cos(tt)), s.r * Mul(Scale - s.k, Sin(tt))>>

\* At with 1 + k for 1 - k.
AtOuterSum(s, t) ==
    LET tt == ToFixed(t)
        u  == (tt * (Scale - s.k)) \div s.k
        lk == Mul(s.l, s.k)
        x  == s.r * (Mul(Scale + s.k, Cos(tt)) + Mul(lk, Cos(u)))
        y  == s.r * (Mul(Scale + s.k, Sin(tt)) - Mul(lk, Sin(u)))
    IN  <<x, y>>

\* Spirograph::at.  With k = 0 the f64 quotient t*(1-k)/k is NaN or infinite
\* and both coordinates are NaN; there is no division error in f64.
At(s, t) ==
    IF s.k = 0 THEN <<NaN, NaN>>
    ELSE
    LET tt == ToFixed(t)
        u  == (tt * (Scale - s.k)) \div s.k
        lk == Mul(s.l, s.k)
        x  == s.r * (Mul(Scale - s.k, Cos(tt)) + Mul(lk, Cos(u)))
        y  == s.r * (Mul(Scale - s.k, Sin(tt)) - Mul(lk, Sin(u)))
    IN  <<x, y>>

\* Option::None, where a point is expected.
None == <<>>

\* Spirograph::iter
SpirographIter(s, width) == [s |-> s, now |-> Zero, width |-> width]

\* IterNext with the advance before the evaluation.
IterNextAdvanceFirst(it) ==
    [item |-> At(it.s, FAdd(it.now, it.width)),
     iter |-> [it EXCEPT !.now = FAdd(it.now, it.width)]]

\* IterNext with `=` for `+=`.
IterNextAssign(it) ==
    [item |-> At(it.s, it.now),
     iter |-> [it EXCEPT !.now = it.width]]

\* IterNext that steps backwards once it has passed 0.5.
IterNextBackwards(it) ==
    [item |-> At(it.s, it.now),
     iter |-> [it EXCEPT !.now = IF it.now[1] < 2^26
                                 THEN FAdd(it.now, it.width) ELSE it.width]]

\* IterNext of an iterator that ends once it has passed 0.5.
IterNextFinite(it) ==
    [item |-> IF it.now[1] < 2^26 THEN At(it.s, it.now) ELSE <<>>,
     iter |-> [it EXCEPT !.now = FAdd(it.now, it.width)]]

\* SpirographIter::next: the item returned (a point <<x, y>> is Some((x, y)),
\* <<>> is None) and the iterator afterwards.
IterNext(it) ==
    [item |-> At(it.s, it.now),
     iter |-> [it EXCEPT !.now = FAdd(it.now, it.width)]]

(***************************************************************************)
(* Canvas: the element and the calls its 2d context has received.          *)
(***************************************************************************)
\* Canvas::new for the id-th element the document creates.
CanvasNew(id) ==
    [id |-> id, width |-> 500, height |-> 500, calls |-> <<<<"begin_path">>>>]

LineTo(cv, x, y) == [cv EXCEPT !.calls = Append(@, <<"line_to", x, y>>)]

Stroke(cv) == [cv EXCEPT !.calls = Append(@, <<"stroke">>)]

(***************************************************************************)
(* Model: the component.                                                   *)
(***************************************************************************)
\* unwrap that carries on with nothing in hand.
PanicNever(failed) == "running"

\* Result::unwrap / Option::unwrap: the status of the component after an
\* unwrap of something that failed or not.  A panic ends the handler and the
\* component handles nothing afterwards.
PanicIf(failed) == IF failed THEN "panicked" ELSE "running"

\* Rust's f64::clamp.
Clamp(v, lo, hi) == IF v < lo THEN lo ELSE IF v > hi THEN hi ELSE v

\* Cb without the clamp.
CbNoClamp(raw) == (raw * Scale) \div 100

\* Cb clamping to [0, 0.99].
CbClampFromZero(raw) == Clamp((raw * Scale) \div 100, 0, (99 * Scale) \div 100)

\* The closure cb of Model::view: (obj.value / 100.).clamp(0.01, 0.99).
Cb(raw) == Clamp((raw * Scale) \div 100, Scale \div 100, (99 * Scale) \div 100)

\* The canvas centre added to a coordinate: 250. + x.
Centre(c) == IF c = NaN THEN NaN ELSE 250 * Scale + c

\* OnTick that strokes the path before it extends it.
OnTickStrokeFirst(sp, cv, doc) ==
    LET n == IterNext(sp)
    IN  [spirograph |-> n.iter,
         canvas     |-> LineTo(Stroke(cv), Centre(n.item[1]), Centre(n.item[2])),
         created    |-> doc,
         ok         |-> TRUE]

\* Model::update, Msg::Tick, on the iterator sp and the canvas cv, doc being
\* the number of canvases the document has created.  ok is FALSE when
\* next() returned None, on which the unwrap panics before anything is drawn.
OnTick(sp, cv, doc) ==
    LET n == IterNext(sp)
    IN  IF n.item = None
        THEN [spirograph |-> n.iter, canvas |-> cv, created |-> doc,
              ok |-> FALSE]
        ELSE [spirograph |-> n.iter,
              canvas     |-> Stroke(LineTo(cv, Centre(n.item[1]),
                                               Centre(n.item[2]))),
              created    |-> doc,
              ok         |-> TRUE]

\* OnLSlider that leaves `now` as it is.
OnLSliderStale(sp, cv, doc, l) ==
    [spirograph |-> [sp EXCEPT !.s.l = l],
     canvas     |-> CanvasNew(doc + 1),
     created    |-> doc + 1]

\* OnLSlider that builds the curve anew from l and the defaults of create.
OnLSliderRebuilds(sp, cv, doc, l) ==
    [spirograph |-> SpirographIter(SpirographNew(l, 4600, 150), sp.width),
     canvas     |-> CanvasNew(doc + 1),
     created    |-> doc + 1]

\* Model::update, Msg::LSlider(l).
OnLSlider(sp, cv, doc, l) ==
    [spirograph |-> [sp EXCEPT !.s.l = l, !.now = Zero],
     canvas     |-> CanvasNew(doc + 1),
     created    |-> doc + 1]

\* OnKSlider that keeps the canvas.
OnKSliderKeepCanvas(sp, cv, doc, k) ==
    [spirograph |-> [sp EXCEPT !.s.k = k, !.now = Zero],
     canvas     |-> cv,
     created    |-> doc]

\* OnKSlider that resets only when k changes.
OnKSliderIfChanged(sp, cv, doc, k) ==
    IF sp.s.k = k
    THEN [spirograph |-> sp, canvas |-> cv, created |-> doc]
    ELSE [spirograph |-> [sp EXCEPT !.s.k = k, !.now = Zero],
          canvas     |-> CanvasNew(doc + 1),
          created    |-> doc + 1]

\* OnKSlider that assigns to l.
OnKSliderAssignsL(sp, cv, doc, k) ==
    [spirograph |-> [sp EXCEPT !.s.l = k, !.now = Zero],
     canvas     |-> CanvasNew(doc + 1),
     created    |-> doc + 1]

\* Model::update, Msg::KSlider(k).
OnKSlider(sp, cv, doc, k) ==
    [spirograph |-> [sp EXCEPT !.s.k = k, !.now = Zero],
     canvas     |-> CanvasNew(doc + 1),
     created    |-> doc + 1]

TypeOf(msg) == msg[1]

\* Number of calls named op among the calls a context has received.
Count(op, calls) == Cardinality({i \in 1..Len(calls) : calls[i][1] = op})

\* Calls named op that the step from canvas cv to canvas cw has issued.
Issued(op, cv, cw) ==
    Count(op, cw.calls) - (IF cw.id = cv.id THEN Count(op, cv.calls) ELSE 0)

\* Model::create that lets the Interval go at the end of the function.
CreateDropsInterval ==
    [canvas     |-> CanvasNew(1),
     spirograph |-> SpirographIter(SpirographNew(2200, 4600, 150), Width),
     interval   |-> "cancelled"]

\* Model::create: the component it returns.
Create ==
    [canvas     |-> CanvasNew(1),
     spirograph |-> SpirographIter(SpirographNew(2200, 4600, 150), Width),
     interval   |-> "active"]

\* The state once Model::create has returned.
Init ==
    /\ spirograph = Create.spirograph
    /\ canvas = Create.canvas
    /\ interval = Create.interval
    /\ status = "running"
    /\ fault = "none"
    /\ created = 1
    /\ nLineTo = 0
    /\ nStroke = 0
    /\ lastRaw = <<>>
    /\ lastMsg = <<"None">>
    /\ prevMsg = <<"None">>
    /\ nTick = 0
    /\ nParam = 0
    /\ trace = <<>>

\* Model::update(msg), with the history it leaves.
Update(msg) ==
    /\ status = "running"
    /\ nTick + nParam < MaxEvents
    /\ LET m == IF TypeOf(msg) = "Tick"
                THEN OnTick(spirograph, canvas, created)
                ELSE IF TypeOf(msg) = "LSlider"
                THEN OnLSlider(spirograph, canvas, created, msg[2])
                ELSE OnKSlider(spirograph, canvas, created, msg[2])
           failed == TypeOf(msg) = "Tick" /\ ~m.ok
       IN  /\ spirograph' = m.spirograph
           /\ canvas' = m.canvas
           /\ created' = m.created
           /\ status' = PanicIf(failed)
           /\ fault' = IF failed THEN "next" ELSE fault
    /\ interval' = interval
    /\ nLineTo' = nLineTo + Issued("line_to", canvas, canvas')
    /\ nStroke' = nStroke + Issued("stroke", canvas, canvas')
    /\ lastMsg' = msg
    /\ prevMsg' = lastMsg
    /\ nTick' = IF TypeOf(msg) = "Tick" THEN nTick + 1 ELSE nTick
    /\ nParam' = IF TypeOf(msg) = "Tick" THEN nParam ELSE nParam + 1
    /\ trace' = IF TypeOf(msg) = "Tick" THEN Append(trace, spirograph.now)
                ELSE <<>>

\* The Interval of Model::create fires: link.send_message(Msg::Tick).
TimerFire == interval = "active" /\ Update(<<"Tick">>) /\ lastRaw' = <<>>

\* The l slider's oninput: Msg::LSlider(cb(e)).
SlideL(raw) == Update(<<"LSlider", Cb(raw)>>) /\ lastRaw' = <<raw>>

\* The k slider's oninput: Msg::KSlider(cb(e)).
SlideK(raw) == Update(<<"KSlider", Cb(raw)>>) /\ lastRaw' = <<raw>>

Next ==
    \/ TimerFire
    \/ \E raw \in RawValues : SlideL(raw)
    \/ \E raw \in RawValues : SlideK(raw)

Spec == Init /\ [][Next]_vars

(***************************************************************************)
(* The component in an environment that can fail it: slider events whose   *)
(* detail holds no number, a document that cannot give a canvas, and the   *)
(* component being dropped.                                                *)
(***************************************************************************)
\* The details a slider event may carry: a number, or something else in the
\* place of `_value` (a string, null, or no such field).
Details ==
    {<<"number", raw>> : raw \in RawValues}
        \cup {<<"string">>, <<"null">>, <<"absent">>}

\* e.detail().into_serde() for SlideEventDetails { value: f64 }.
IntoSerde(d) == IF d[1] = "number" THEN <<"Ok", d[2]>> ELSE <<"Err">>

\* The unwrap in cb panics: no message is sent.
CbPanics ==
    /\ status = "running"
    /\ status' = PanicIf(TRUE)
    /\ fault' = "input"
    /\ lastRaw' = <<>>
    /\ UNCHANGED <<spirograph, canvas, created, nLineTo, nStroke, lastMsg,
                   prevMsg, nTick, nParam, trace, interval>>

\* A slider's oninput with any detail; which is "l" or "k".
Slide(which, d) ==
    LET r == IntoSerde(d)
    IN  IF r[1] = "Err" THEN CbPanics
        ELSE IF which = "l" THEN SlideL(r[2]) ELSE SlideK(r[2])

\* Model::update(msg) for a slider message when Canvas::new panics: the
\* fields assigned before the call hold their new values, the canvas is the
\* old one.
UpdateNoCanvas(msg) ==
    /\ status = "running"
    /\ nTick + nParam < MaxEvents
    /\ LET m == IF TypeOf(msg) = "LSlider"
                THEN OnLSlider(spirograph, canvas, created, msg[2])
                ELSE OnKSlider(spirograph, canvas, created, msg[2])
       IN  spirograph' = m.spirograph
    /\ status' = PanicIf(TRUE)
    /\ fault' = "canvas"
    /\ lastMsg' = msg
    /\ prevMsg' = lastMsg
    /\ UNCHANGED <<canvas, created, nLineTo, nStroke, nTick, nParam, trace,
                   interval>>

SlideLNoCanvas(raw) ==
    UpdateNoCanvas(<<"LSlider", Cb(raw)>>) /\ lastRaw' = <<raw>>

SlideKNoCanvas(raw) ==
    UpdateNoCanvas(<<"KSlider", Cb(raw)>>) /\ lastRaw' = <<raw>>

\* The component is dropped, and its fields with it: dropping the Interval
\* cancels the timer.
Teardown ==
    /\ status = "running"
    /\ status' = "destroyed"
    /\ interval' = "cancelled"
    /\ UNCHANGED <<spirograph, canvas, created, nLineTo, nStroke, lastRaw,
                   lastMsg, prevMsg, nTick, nParam, trace, fault>>

\* Canvas::new panics in Model::create: there is no component, no canvas and
\* no Interval.
InitNoCanvas ==
    /\ spirograph = SpirographIter(SpirographNew(0, 0, 0), Zero)
    /\ canvas = [id |-> 0, width |-> 0, height |-> 0, calls |-> <<>>]
    /\ interval = "none"
    /\ status = PanicIf(TRUE)
    /\ fault = "canvas"
    /\ created = 0
    /\ nLineTo = 0
    /\ nStroke = 0
    /\ lastRaw = <<>>
    /\ lastMsg = <<"None">>
    /\ prevMsg = <<"None">>
    /\ nTick = 0
    /\ nParam = 0
    /\ trace = <<>>

InitEnv == Init \/ InitNoCanvas

NextEnv ==
    \/ TimerFire
    \/ \E d \in Details : Slide("l", d)
    \/ \E d \in Details : Slide("k", d)
    \/ \E raw \in RawValues : SlideLNoCanvas(raw)
    \/ \E raw \in RawValues : SlideKNoCanvas(raw)
    \/ Teardown

SpecEnv == InitEnv /\ [][NextEnv]_vars

(***************************************************************************)
(* Helpers of the properties.                                              *)
(***************************************************************************)
IsParam(msg) == TypeOf(msg) \in {"LSlider", "KSlider"}

Blank == <<<<"begin_path">>>>

\* The line_to call that draws point p.
Draw(p) == <<"line_to", Centre(p[1]), Centre(p[2])>>

\* w added n times to t0, each sum rounded as f64 rounds it.
RECURSIVE AddSteps(_, _, _)
AddSteps(t0, n, w) == IF n = 0 THEN t0 ELSE FAdd(AddSteps(t0, n - 1, w), w)

\* w added n times to 0.0.
SumSteps(n, w) == AddSteps(Zero, n, w)

Abs(x) == IF x < 0 THEN 0 - x ELSE x

\* a - b in units of 2^-55, for |a - b| small.
Diff(a, b) == (a[1] - b[1]) * Base + (a[2] - b[2])

\* a < b, for f64 values in limbs.
Less(a, b) == a[1] < b[1] \/ (a[1] = b[1] /\ a[2] < b[2])

\* n * w as a real number.
RECURSIVE ExactMul(_, _)
ExactMul(n, w) == IF n = 0 THEN Zero ELSE ExactAdd(ExactMul(n - 1, w), w)

\* The f64 product n * w.
FMulNat(n, w) == RoundNearestEven(ExactMul(n, w))

(***************************************************************************)
(* C1. The Tick processed immediately after a parameter-change event draws *)
(* the point at(new parameters, t = 0): the parameters hold the value the  *)
(* event carried, and the line_to the Tick issues is that point, however   *)
(* many Ticks came before the change.                                      *)
(***************************************************************************)
C1_TickAfterChangeDrawsFromZero ==
    [][(IsParam(lastMsg) /\ TypeOf(lastMsg') = "Tick") =>
         /\ (TypeOf(lastMsg) = "LSlider" => spirograph'.s.l = lastMsg[2])
         /\ (TypeOf(lastMsg) = "KSlider" => spirograph'.s.k = lastMsg[2])
         /\ canvas'.calls = Blank \o <<Draw(At(spirograph'.s, Zero)), <<"stroke">>>>
      ]_vars

\* A Tick right after a change that at least three Ticks preceded.
C1_Witness ==
    /\ TypeOf(lastMsg) = "Tick"
    /\ IsParam(prevMsg)
    /\ nTick >= 4
    /\ Len(trace) = 1

(***************************************************************************)
(* C2. In every reachable state, with n the number of Ticks since the last *)
(* parameter change (or since startup), the current canvas holds exactly   *)
(* the points at(current parameters, t_i), i = 0..n-1, in order, and the   *)
(* iterator's now is t_n, where t_0 = 0.0 and t_(i+1) = t_i + step in f64  *)
(* arithmetic; the canvas is blank exactly when now is 0.0, and the        *)
(* current canvas is the one created last.                                 *)
(***************************************************************************)
\* The calls a canvas has received once the points of s at the times ts,
\* oldest first, are drawn on it.
RECURSIVE PathOf(_, _)
PathOf(s, ts) ==
    IF ts = <<>> THEN Blank
    ELSE PathOf(s, SubSeq(ts, 1, Len(ts) - 1))
             \o <<Draw(At(s, ts[Len(ts)])), <<"stroke">>>>

C3_StoredValueIsClamped ==
    IsParam(lastMsg) =>
        LET v      == (lastRaw[1] * Scale) \div 100
            stored == IF TypeOf(lastMsg) = "LSlider"
                      THEN spirograph.s.l ELSE spirograph.s.k
        IN  /\ v < 100 => stored = 100
            /\ v > 9900 => stored = 9900
            /\ (v >= 100 /\ v <= 9900) => stored = v
            /\ (TypeOf(lastMsg) = "KSlider" /\ lastRaw = <<0>>)
                   => spirograph.s.k = 100

\* The k slider has sent the raw value 0.
C3_Witness == TypeOf(lastMsg) = "KSlider" /\ lastRaw = <<0>>

(***************************************************************************)
(* C4. In every reachable state k is not 0 and l and k lie in              *)
(* [0.01, 0.99], so no point drawn is the NaN a zero divisor gives.        *)
(***************************************************************************)
C4_ParametersInRange ==
    /\ spirograph.s.k # 0
    /\ spirograph.s.l >= 100 /\ spirograph.s.l <= 9900
    /\ spirograph.s.k >= 100 /\ spirograph.s.k <= 9900
    /\ \A i \in 1..Len(canvas.calls) :
          canvas.calls[i][1] = "line_to" =>
              canvas.calls[i][2] # NaN /\ canvas.calls[i][3] # NaN

\* A Tick drawn after both sliders were pushed below their range.
C4_Witness ==
    /\ TypeOf(lastMsg) = "Tick"
    /\ spirograph.s.k = 100
    /\ spirograph.s.l = 100
    /\ Len(trace) >= 2

(***************************************************************************)
(* C5. From a generator state with parameter value t0, N calls of next()   *)
(* with no reset in between leave t equal to t0 with step added N times in *)
(* f64 arithmetic, each sum rounded to nearest; that value is within N     *)
(* half-spacings of the real number t0 + N*step.                           *)
(***************************************************************************)
\* The values of now since the last reset, the current one last.
Nows == Append(trace, spirograph.now)

C5_NextAdvancesByRoundedSteps ==
    \A i \in 1..Len(Nows) : \A j \in i..Len(Nows) :
        /\ Nows[j] = AddSteps(Nows[i], j - i, spirograph.width)
        /\ 2 * Abs(Diff(Nows[j],
                        ExactAdd(Nows[i], ExactMul(j - i, spirograph.width))))
              <= (j - i) * Quantum(Nows[j][1])

\* The statement as made: t = t0 + N*step, computed in f64.
C5_AsStated ==
    \A i \in 1..Len(Nows) : \A j \in i..Len(Nows) :
        Nows[j] = FAdd(Nows[i], FMulNat(j - i, spirograph.width))

\* Six calls of next() with no reset in between.
C5_Witness == Len(trace) >= 6 /\ TypeOf(lastMsg) = "Tick"

(***************************************************************************)
(* C6. A parameter-change event sets t to 0.0 and leaves a blank canvas    *)
(* however many Ticks preceded it, and the same event processed twice in a *)
(* row leaves the generator (parameters, t, step) and the canvas content   *)
(* as the first one left them.                                             *)
(***************************************************************************)
C6_ResetIsIdempotent ==
    [][IsParam(lastMsg') =>
         /\ spirograph'.now = Zero
         /\ canvas'.calls = Blank
         /\ (TypeOf(lastMsg') = "LSlider" => spirograph'.s.l = lastMsg'[2])
         /\ (TypeOf(lastMsg') = "KSlider" => spirograph'.s.k = lastMsg'[2])
         /\ (lastMsg' = lastMsg =>
                spirograph' = spirograph /\ canvas'.calls = canvas.calls)
      ]_vars

\* The same k event twice in a row, after three Ticks or more.
C6_Witness ==
    /\ TypeOf(lastMsg) = "KSlider"
    /\ prevMsg = lastMsg
    /\ nTick >= 3

(***************************************************************************)
(* C7. next() evaluates the point at the current t and only then advances  *)
(* t: the i-th call after a reset or after construction returns            *)
(* at(parameters, t_(i-1)) with t_0 = 0.0 and t_(i+1) = t_i + step in f64  *)
(* arithmetic, and with step 0.15 the first three calls return the points  *)
(* at 0.0, 0.15 and 0.30.                                                  *)
(***************************************************************************)
C7_NextEvaluatesThenAdvances ==
    \A i \in 1..Len(trace) :
        /\ trace[i] = SumSteps(i - 1, spirograph.width)
        /\ canvas.calls[2 * i] = Draw(At(spirograph.s, trace[i]))
        /\ i = 1 => trace[i] = Zero
        /\ i = 2 => trace[i] = <<20132659, 53687091>>    \* 0.15
        /\ i = 3 => trace[i] = <<40265318, 107374182>>   \* 0.30

\* The statement as made: the i-th call returns at(parameters, (i-1)*step).
C7_AsStated ==
    \A i \in 1..Len(trace) :
        /\ trace[i] = FMulNat(i - 1, spirograph.width)
        /\ canvas.calls[2 * i] =
               Draw(At(spirograph.s, FMulNat(i - 1, spirograph.width)))

\* Seven calls of next() since construction or the last reset.
C7_Witness == Len(trace) >= 7 /\ TypeOf(lastMsg) = "Tick"

(***************************************************************************)
(* C8. For l = 0.22, k = 0.46, r = 150 and t = 0 the point is              *)
(* (150 * ((1 - 0.46) + 0.22 * 0.46), 0) = (96.18, 0.0): the first point   *)
(* drawn under these parameters is that point, moved to the centre.        *)
(***************************************************************************)
C8_FirstPointOfInitialCurve ==
    (spirograph.s = SpirographNew(2200, 4600, 150) /\ Len(trace) >= 1) =>
        /\ trace[1] = Zero
        /\ canvas.calls[2] = <<"line_to", 250 * Scale + 961800, 250 * Scale>>

\* The statement as made: the point is (81.0, 0.0).
C8_AsStated ==
    (spirograph.s = SpirographNew(2200, 4600, 150) /\ Len(trace) >= 1) =>
        /\ trace[1] = Zero
        /\ canvas.calls[2] = <<"line_to", 250 * Scale + 810000, 250 * Scale>>

\* The first Tick after startup has drawn.
C8_Witness == nParam = 0 /\ nTick >= 1 /\ Len(canvas.calls) >= 3

(***************************************************************************)
(* C9. The number of canvases created is 1 plus the number of parameter    *)
(* changes processed, and the numbers of line_to and of stroke calls each  *)
(* equal the number of Ticks processed; a Tick issues one line_to and then *)
(* one stroke on the current canvas and creates none, and a parameter      *)
(* change creates one canvas and draws nothing.                            *)
(***************************************************************************)
C9_CollaboratorCallCounts ==
    /\ [](/\ created = 1 + nParam
          /\ nLineTo = nTick
          /\ nStroke = nTick
          /\ canvas.id = created)
    /\ [][/\ TypeOf(lastMsg') = "Tick" =>
                /\ created' = created
                /\ canvas'.id = canvas.id
                /\ Len(canvas'.calls) = Len(canvas.calls) + 2
                /\ SubSeq(canvas'.calls, 1, Len(canvas.calls)) = canvas.calls
                /\ canvas'.calls[Len(canvas.calls) + 1][1] = "line_to"
                /\ canvas'.calls[Len(canvas.calls) + 2][1] = "stroke"
          /\ IsParam(lastMsg') =>
                /\ created' = created + 1
                /\ canvas'.id = created'
                /\ nLineTo' = nLineTo
                /\ nStroke' = nStroke
                /\ Count("line_to", canvas'.calls) = 0
                /\ Count("stroke", canvas'.calls) = 0
         ]_vars

\* Ticks and parameter changes of both kinds, interleaved.
C9_Witness ==
    /\ nTick >= 4
    /\ nParam >= 2
    /\ Len(trace) >= 1
    /\ Len(trace) < nTick

(***************************************************************************)
(* C10. t starts at 0.0; a Tick raises it to the f64 sum t + step, which   *)
(* is greater than t; and a step that lowers t is a parameter change,      *)
(* which sets it to 0.0.                                                   *)
(***************************************************************************)
C10_NowDecreasesOnlyOnReset ==
    /\ spirograph.now = Zero
    /\ [][/\ TypeOf(lastMsg') = "Tick" =>
                /\ spirograph'.now = FAdd(spirograph.now, spirograph.width)
                /\ Less(spirograph.now, spirograph'.now)
          /\ Less(spirograph'.now, spirograph.now) =>
                IsParam(lastMsg') /\ spirograph'.now = Zero
         ]_vars

\* A reset that lowered t, with Ticks raising it again afterwards.
C10_Witness ==
    /\ nParam >= 1
    /\ nTick >= 5
    /\ Len(trace) >= 2
    /\ Len(trace) < nTick

(***************************************************************************)
(* C11. The outer radius r is 150 and the step width is 0.15 in every      *)
(* reachable state; an l event leaves k, r and the step as they were, a k  *)
(* event leaves l, r and the step as they were, and a Tick leaves l, k, r, *)
(* the step and the identity of the current canvas as they were.           *)
(***************************************************************************)
C11_FrameOfTheEvents ==
    /\ [](spirograph.s.r = 150 /\ spirograph.width = <<20132659, 53687091>>)
    /\ [][/\ TypeOf(lastMsg') = "LSlider" =>
                /\ spirograph'.s.k = spirograph.s.k
                /\ spirograph'.s.r = spirograph.s.r
                /\ spirograph'.width = spirograph.width
          /\ TypeOf(lastMsg') = "KSlider" =>
                /\ spirograph'.s.l = spirograph.s.l
                /\ spirograph'.s.r = spirograph.s.r
                /\ spirograph'.width = spirograph.width
          /\ TypeOf(lastMsg') = "Tick" =>
                /\ spirograph'.s = spirograph.s
                /\ spirograph'.width = spirograph.width
                /\ canvas'.id = canvas.id
         ]_vars

\* An l event that kept the k a k event had set, with Ticks in between.
C11_Witness ==
    /\ TypeOf(lastMsg) = "LSlider"
    /\ spirograph.s.l # 2200
    /\ spirograph.s.k # 4600
    /\ TypeOf(prevMsg) = "Tick"
    /\ nTick >= 2

(***************************************************************************)
(* C12. Invalid parameter input, out of range or not a number, is clamped  *)
(* to [0.01, 0.99] and never surfaced: after such an input the component   *)
(* is running and l and k lie in [0.01, 0.99].                             *)
(***************************************************************************)
C12_AsStated ==
    fault = "input" =>
        /\ status = "running"
        /\ spirograph.s.l >= 100 /\ spirograph.s.l <= 9900
        /\ spirograph.s.k >= 100 /\ spirograph.s.k <= 9900

(***************************************************************************)
(* C13. next() always yields a point: in every state reached by Ticks and  *)
(* parameter changes no unwrap has failed, every Tick since the last reset *)
(* has drawn its point, and a Tick can be processed (as long as the bound  *)
(* on the number of messages is not reached).                              *)
(***************************************************************************)
C13_NextAlwaysSucceeds ==
    /\ status = "running"
    /\ fault = "none"
    /\ IterNext(spirograph).item # None
    /\ Count("line_to", canvas.calls) = Len(trace)
    /\ nTick + nParam < MaxEvents => ENABLED TimerFire

\* Six Ticks in a row after a reset.
C13_Witness == Len(trace) >= 6 /\ nParam >= 1

(***************************************************************************)
(* C14. For l and k in [0.01, 0.99] and every t, the point at(t) lies in   *)
(* the disk of radius r*(1 + l*k) around the origin: so do the points on   *)
(* the canvas (taken back from the centre) and the next MaxAhead points of *)
(* the iterator.  Distances are compared in units of 0.01.                 *)
(***************************************************************************)
InDisk(s, p) ==
    LET x == Abs(p[1]) \div 100
        y == Abs(p[2]) \div 100
        R == (s.r * (Scale + Mul(s.l, s.k))) \div 100 + 1
    IN  x * x + y * y <= R * R

\* The n points from t on lie in the disk.
RECURSIVE AheadInDisk(_, _, _, _)
AheadInDisk(s, t, w, n) ==
    \/ n = 0
    \/ /\ InDisk(s, At(s, t))
       /\ AheadInDisk(s, FAdd(t, w), w, n - 1)

C14_PointsInBoundingDisk ==
    /\ \A i \in 1..Len(canvas.calls) :
          canvas.calls[i][1] = "line_to" =>
              InDisk(spirograph.s, <<canvas.calls[i][2] - 250 * Scale,
                                     canvas.calls[i][3] - 250 * Scale>>)
    /\ AheadInDisk(spirograph.s, spirograph.now, spirograph.width, MaxAhead)

\* Points drawn with the largest l and the smallest k, the first of them
\* farther from the origin than r*(1 - k).
C14_Witness ==
    /\ spirograph.s.l = 9900
    /\ spirograph.s.k = 100
    /\ Len(trace) >= 3
    /\ canvas.calls[2][2] - 250 * Scale
           > spirograph.s.r * (Scale - spirograph.s.k)

(***************************************************************************)
(* C16. If the creation of a canvas fails, at startup or in a parameter    *)
(* change, the component has panicked, and from then on it handles no      *)
(* event: no step changes the state, so nothing is drawn on the old canvas *)
(* and nothing recovers.                                                   *)
(***************************************************************************)
C16_CanvasFailureIsFatal ==
    /\ [](fault = "canvas" => status = "panicked")
    /\ [][status = "panicked" => UNCHANGED vars]_vars

\* Canvas::new has failed in a parameter change that followed two Ticks.
C16_Witness ==
    /\ fault = "canvas"
    /\ status = "panicked"
    /\ IsParam(lastMsg)
    /\ Len(trace) >= 2

(***************************************************************************)
(* C17. The component holds the Interval as long as it lives and the       *)
(* Interval is cancelled when the component is dropped: while the          *)
(* component runs the timer is active and its Tick can be processed (as    *)
(* long as the bound on the number of messages is not reached), a Tick is  *)
(* processed only by a running component with an active timer, and after   *)
(* the drop nothing changes.                                               *)
(***************************************************************************)
C17_IntervalLivesWithTheComponent ==
    /\ [](status = "running" => interval = "active")
    /\ [](status = "destroyed" => interval = "cancelled")
    /\ []((status = "running" /\ nTick + nParam < MaxEvents)
             => ENABLED TimerFire)
    /\ [][/\ nTick' # nTick => (status = "running" /\ interval = "active")
          /\ status = "destroyed" => UNCHANGED vars
         ]_vars

\* The component was dropped after it had processed three Ticks.
C17_Witness ==
    /\ status = "destroyed"
    /\ interval = "cancelled"
    /\ nTick >= 3

(***************************************************************************)
(* C18. The two parameter changes commute: an l event and a k event in a   *)
(* row leave l and k at the values carried, t = 0.0, r and the step as     *)
(* they were and a blank canvas, whichever came first; and from every      *)
(* reachable state the two orders of the handlers give the same component, *)
(* and the same one again after a Tick.                                    *)
(***************************************************************************)
\* The iterator and the canvas after a handler's result m, as a state.
AfterL(m, a) == OnLSlider(m.spirograph, m.canvas, m.created, a)

AfterK(m, b) == OnKSlider(m.spirograph, m.canvas, m.created, b)

AfterTick(m) == OnTick(m.spirograph, m.canvas, m.created)

C18_ParameterChangesCommute ==
    /\ (IsParam(lastMsg) /\ IsParam(prevMsg)
            /\ TypeOf(lastMsg) # TypeOf(prevMsg)) =>
          LET a == IF TypeOf(lastMsg) = "LSlider"
                   THEN lastMsg[2] ELSE prevMsg[2]
              b == IF TypeOf(lastMsg) = "KSlider"
                   THEN lastMsg[2] ELSE prevMsg[2]
          IN  /\ spirograph = SpirographIter(SpirographNew(a, b, 150), Width)
              /\ canvas.calls = Blank
    /\ LET here == [spirograph |-> spirograph, canvas |-> canvas,
                    created |-> created]
       IN  \A ra \in RawValues : \A rb \in RawValues :
               LET ab == AfterK(AfterL(here, Cb(ra)), Cb(rb))
                   ba == AfterL(AfterK(here, Cb(rb)), Cb(ra))
               IN  /\ ab = ba
                   /\ ab.spirograph.s.l = Cb(ra)
                   /\ ab.spirograph.s.k = Cb(rb)
                   /\ AfterTick(ab) = AfterTick(ba)

\* A k event and then an l event, after Ticks, both changing the value.
C18_Witness ==
    /\ TypeOf(lastMsg) = "LSlider"
    /\ TypeOf(prevMsg) = "KSlider"
    /\ spirograph.s.l # 2200
    /\ spirograph.s.k # 4600
    /\ nTick >= 2

====
